---------------------------- MODULE Spec2Model ----------------------------
(***************************************************************************)
(* Content addressed blob store (package blobstore).                       *)
(*                                                                         *)
(* The model follows the sources: the engine VFSBlobServer (vfsstore.go)   *)
(* on top of a VirtualFS, the two VirtualFS implementations memBlobs       *)
(* (memblobs.go) and fileBlobs (fileblobs.go), and the checkedReader       *)
(* (checkedreader.go).                                                     *)
(*                                                                         *)
(* Strings are sequences of one-character strings, so that slicing,        *)
(* splitting, hex encoding and the byte-wise string order of Go are        *)
(* computed and not assumed.  Keys and blobs are sequences of bytes.       *)
(***************************************************************************)
EXTENDS Integers, Sequences, FiniteSets, TLC

VARIABLES
    vfs,    \* the VirtualFS bound to the engine, with everything it stores
    used,   \* the random seeds TmpKeyname has drawn so far
    last,   \* the last engine call made by the sequential caller, with its results
    wr,     \* the concurrent calls in flight, one record per caller
    present, \* the names inserted into the index and not yet extracted, with their number
    ls      \* the List() call in flight: its goroutine, its channel and its caller

vars == <<vfs, used, last, wr, present, ls>>

---------------------------------------------------------------------------
(* Bounds of the model *)

\* Blobs are the prefixes of a tape of distinct bytes, up to this length.
MaxLen == 2
\* Size in bytes of the digest of the configured hash (crypto.SHA1 has 20).
HashSize == 4
\* Number of distinct random seeds, hence of Write calls in one behaviour.
MaxSeeds == 2
\* Largest buffer a consumer passes to Read.
MaxChunk == 2
\* Largest length of the index when insert and extract are called on their own.
MaxIndex == 3

---------------------------------------------------------------------------
(* Strings *)

\* The characters that occur in location names, in ASCII order.
CharOrder ==
    << ".", "0", "1", "2", "3", "4", "5", "6", "7", "8", "9",
       "a", "b", "c", "d", "e", "f", "l", "n", "o", "w" >>

Rank(c) == CHOOSE i \in 1..Len(CharOrder) : CharOrder[i] = c

Min(a, b) == IF a < b THEN a ELSE b

\* Go's s < t on strings: byte-wise, a proper prefix comes first.
RECURSIVE StrLess(_, _)
StrLess(s, t) ==
    IF t = <<>> THEN FALSE
    ELSE IF s = <<>> THEN TRUE
    ELSE IF Head(s) = Head(t) THEN StrLess(Tail(s), Tail(t))
    ELSE Rank(Head(s)) < Rank(Head(t))

\* s[from:to] of Go with from, to counted from 0; ok is FALSE where Go panics.
Slice(s, from, to) ==
    IF from <= to /\ to <= Len(s)
    THEN [ok |-> TRUE, str |-> SubSeq(s, from + 1, to)]
    ELSE [ok |-> FALSE, str |-> <<>>]

\* strings.Contains(s, ".")
ContainsDot(s) == \E i \in 1..Len(s) : s[i] = "."

\* strings.Split(s, ".")[0]
RECURSIVE BeforeDot(_)
BeforeDot(s) ==
    IF s = <<>> \/ Head(s) = "." THEN <<>>
    ELSE <<Head(s)>> \o BeforeDot(Tail(s))

HexDigits ==
    << "0", "1", "2", "3", "4", "5", "6", "7", "8", "9", "a", "b", "c", "d", "e", "f" >>

\* hex.EncodeToString, and so Key.String
RECURSIVE EncodeToString(_)
EncodeToString(k) ==
    IF k = <<>> THEN <<>>
    ELSE << HexDigits[(Head(k) \div 16) + 1], HexDigits[(Head(k) % 16) + 1] >>
         \o EncodeToString(Tail(k))

IsHexDigit(c) == \E i \in 1..16 : HexDigits[i] = c

HexValue(c) == (CHOOSE i \in 1..16 : HexDigits[i] = c) - 1

RECURSIVE DecodeBytes(_)
DecodeBytes(s) ==
    IF s = <<>> THEN <<>>
    ELSE << 16 * HexValue(s[1]) + HexValue(s[2]) >> \o DecodeBytes(SubSeq(s, 3, Len(s)))

\* hex.DecodeString: fails on an odd length and on a character that is no hex digit.
DecodeString(s) ==
    IF Len(s) % 2 = 0 /\ \A i \in 1..Len(s) : IsHexDigit(s[i])
    THEN [ok |-> TRUE, bytes |-> DecodeBytes(s)]
    ELSE [ok |-> FALSE, bytes |-> <<>>]

DotNew  == << ".", "n", "e", "w" >>
DotBlob == << ".", "b", "l", "o", "b" >>

---------------------------------------------------------------------------
(* Keys, blobs and the hash *)

\* A nil Key is the empty byte sequence: len and bytes.Compare do not tell them apart.
NilKey == <<>>

\* Key.Equals: bytes.Compare(k, key) == 0
Equals(k, key) == k = key

\* The blob of n bytes: n distinct bytes of one tape.
Blob(n) == [i \in 1..n |-> 64 + i]

Blobs == { Blob(n) : n \in 0..MaxLen }

RECURSIVE Code(_)
Code(b) == IF b = <<>> THEN 0 ELSE ((Head(b) % 16) + 1) + 17 * Code(Tail(b))

\* hash.Hash: Write appends to the bytes hashed so far and Sum(nil) is the digest of
\* them all.  The digest is caller supplied (crypto.Hash); here it is an injective
\* code of the bytes, spread over hash.Size() bytes.
Digest(b) ==
    [i \in 1..HashSize |->
        IF i = 1 THEN (Code(b) * 167 + 91) % 256
        ELSE IF i = 2 THEN (Code(b) \div 256) % 256
        ELSE (Code(b) * 31 + 16 * i) % 256]

\* rand.Reader.Read(key): the size random bytes of seed s.
RandomBytes(s, size) == [j \in 1..size |-> (97 * s + 29 * j) % 256]

Seeds == 1..MaxSeeds

---------------------------------------------------------------------------
(* memBlobs: the VirtualFS in memory.  A bytes.Buffer is the sequence of   *)
(* its unread bytes: Write appends to it, Read takes from its front.       *)

\* newMemBlobs
newMemBlobs == [kind |-> "mem", blobs |-> << >>, keynames |-> << >>]

\* A Go map with key k removed, and with k set to v.
MapDelete(m, k) == [n \in DOMAIN m \ {k} |-> m[n]]
MapSet(m, k, v) == [n \in DOMAIN m \cup {k} |-> IF n = k THEN v ELSE m[n]]

\* sort.Search(n, f) with f(h) = a[h] >= x, the loop of the binary search on a[i..j).
RECURSIVE SearchLoop(_, _, _, _)
SearchLoop(a, x, i, j) ==
    IF i < j
    THEN LET h == (i + j) \div 2
         IN  IF StrLess(a[h + 1], x)
             THEN SearchLoop(a, x, h + 1, j)
             ELSE SearchLoop(a, x, i, h)
    ELSE i

\* sort.StringSlice.Search: an index counted from 0
Search(a, x) == SearchLoop(a, x, 0, Len(a))

\* for i := len-1; i > index; i-- { a[i] = a[i-1] }
RECURSIVE ShiftRight(_, _, _)
ShiftRight(a, i, index) ==
    IF i > index
    THEN ShiftRight([a EXCEPT ![i + 1] = a[i]], i - 1, index)
    ELSE a

\* memBlobs.insert that leaves the new name at the end, where append put it
insertLast(keynames, keyname) == Append(keynames, keyname)

\* memBlobs.insert
insert(keynames, keyname) ==
    LET index    == Search(keynames, keyname)
        appended == Append(keynames, keyname)
        shifted  == ShiftRight(appended, Len(appended) - 1, index)
    IN  IF index < Len(appended) - 1
        THEN [shifted EXCEPT ![index + 1] = keyname]
        ELSE shifted

\* The shift of extract left out
ShiftLeftNone(a, i) == a

\* for i := index; i < len-1; i++ { a[i] = a[i+1] }
RECURSIVE ShiftLeft(_, _)
ShiftLeft(a, i) ==
    IF i < Len(a) - 1
    THEN ShiftLeft([a EXCEPT ![i + 1] = a[i + 2]], i + 1)
    ELSE a

\* memBlobs.extract: found is its result; panic is the index out of range of
\* keynames[index] when Search returns len(keynames).
extract(keynames, keyname) ==
    LET index == Search(keynames, keyname)
    IN  IF index >= Len(keynames)
        THEN [keynames |-> keynames, found |-> FALSE, panic |-> TRUE]
        ELSE IF keynames[index + 1] # keyname
        THEN [keynames |-> keynames, found |-> FALSE, panic |-> FALSE]
        ELSE [keynames |-> SubSeq(ShiftLeft(keynames, index), 1, Len(keynames) - 1),
              found |-> TRUE, panic |-> FALSE]

\* memBlobs.Open: the reader is the stored buffer itself, not a copy of it.
MemOpen(mem, key) ==
    IF key \in DOMAIN mem.blobs
    THEN [err |-> "nil", buf |-> mem.blobs[key]]
    ELSE [err |-> "NotFound", buf |-> <<>>]

\* memBlobs.Create
MemCreate(mem, keyname) ==
    [mem EXCEPT !.blobs = MapSet(mem.blobs, keyname, <<>>),
                !.keynames = insert(mem.keynames, keyname)]

\* memBlobs.Delete
MemDelete(mem, keyname) ==
    [mem EXCEPT !.blobs = MapDelete(mem.blobs, keyname)]

\* memBlobs.Exists
MemExists(mem, keyname) == keyname \in DOMAIN mem.blobs

\* memBlobs.Rename; the caller renames a key that is stored.
MemRename(mem, oldkey, newkey) ==
    LET moved == MapDelete(MapSet(mem.blobs, newkey, mem.blobs[oldkey]), oldkey)
        ex    == extract(insert(mem.keynames, newkey), oldkey)
    IN  [vfs |-> [mem EXCEPT !.blobs = moved, !.keynames = ex.keynames],
         err |-> IF ex.panic THEN "panic" ELSE "nil"]

\* memBlobs.Keyname
MemKeyname(key) == EncodeToString(key)

\* memBlobs.TmpKeyname
MemTmpKeyname(seed, size) == EncodeToString(RandomBytes(seed, size)) \o DotNew

---------------------------------------------------------------------------
(* fileBlobs: the VirtualFS on the files of the operating system.  A path  *)
(* is the sequence of its elements, the first one being fileBlobs.dir.     *)

\* fileBlobs.dir, the root directory of the store
RootDir == << "d" >>

\* NewFileBlobServer on an existing, empty directory
newFileBlobs ==
    [kind |-> "file", dir |-> RootDir, files |-> << >>, dirs |-> { << RootDir >> }]

\* filepath.Dir(path) and all the directories above it, which os.MkdirAll creates
ParentDirs(path) == { SubSeq(path, 1, n) : n \in 1..(Len(path) - 1) }

\* fileBlobs.Open: os.Open of a file that is not there fails
FileOpen(fb, key) ==
    IF key \in DOMAIN fb.files
    THEN [err |-> "nil", buf |-> fb.files[key]]
    ELSE [err |-> "NotFound", buf |-> <<>>]

\* fileBlobs.Create: os.OpenFile(key, O_CREATE|O_WRONLY): an existing file is
\* opened as it is (no O_TRUNC); the call can fail.
FileCreate(fb, key, fails) ==
    IF fails THEN [vfs |-> fb, err |-> "IOError"]
    ELSE IF key \in DOMAIN fb.files THEN [vfs |-> fb, err |-> "nil"]
    ELSE [vfs |-> [fb EXCEPT !.files = MapSet(fb.files, key, <<>>)], err |-> "nil"]

\* fileBlobs.Delete: os.Remove fails on a file that is not there
FileDelete(fb, key, fails) ==
    IF fails THEN [vfs |-> fb, err |-> "IOError"]
    ELSE IF key \notin DOMAIN fb.files THEN [vfs |-> fb, err |-> "NotFound"]
    ELSE [vfs |-> [fb EXCEPT !.files = MapDelete(fb.files, key)], err |-> "nil"]

\* fileBlobs.Exists: os.Stat finds files and directories
FileExists(fb, key) == key \in DOMAIN fb.files \/ key \in fb.dirs

\* fileBlobs.Rename: os.MkdirAll of the parent, then os.Rename, which replaces
\* the destination; fault is "mkdir", "rename" or "none".
FileRename(fb, oldkey, newkey, fault) ==
    IF fault = "mkdir" THEN [vfs |-> fb, err |-> "IOError"]
    ELSE LET made == [fb EXCEPT !.dirs = fb.dirs \cup ParentDirs(newkey)]
         IN  IF fault = "rename" THEN [vfs |-> made, err |-> "IOError"]
             ELSE IF oldkey \notin DOMAIN fb.files THEN [vfs |-> made, err |-> "NotFound"]
             ELSE [vfs |-> [made EXCEPT !.files =
                              MapDelete(MapSet(fb.files, newkey, fb.files[oldkey]), oldkey)],
                   err |-> "nil"]

\* fileBlobs.Keyname that names the file by the first 8 characters of hexKey
FileKeynamePrefix(fb, key) ==
    LET hexKey == EncodeToString(key)
        a == Slice(hexKey, 0, 2)
        b == Slice(hexKey, 2, 4)
        c == Slice(hexKey, 4, 6)
        d == Slice(hexKey, 6, 8)
    IN  IF a.ok /\ b.ok /\ c.ok /\ d.ok
        THEN [ok |-> TRUE,
              name |-> << fb.dir, a.str, b.str, c.str, d.str,
                          a.str \o b.str \o c.str \o d.str \o DotBlob >>]
        ELSE [ok |-> FALSE, name |-> <<>>]

\* fileBlobs.Keyname: ok is FALSE where a slice of hexKey is out of range (a panic)
FileKeyname(fb, key) ==
    LET hexKey == EncodeToString(key)
        a == Slice(hexKey, 0, 2)
        b == Slice(hexKey, 2, 4)
        c == Slice(hexKey, 4, 6)
        d == Slice(hexKey, 6, 8)
    IN  IF a.ok /\ b.ok /\ c.ok /\ d.ok
        THEN [ok |-> TRUE,
              name |-> << fb.dir, a.str, b.str, c.str, d.str, hexKey \o DotBlob >>]
        ELSE [ok |-> FALSE, name |-> <<>>]

\* fileBlobs.TmpKeyname
FileTmpKeyname(fb, seed, size) ==
    << fb.dir, EncodeToString(RandomBytes(seed, size)) \o DotNew >>

\* The bytes of a file after writing chunk at offset off.
WriteAt(content, off, chunk) ==
    LET n == IF off + Len(chunk) > Len(content) THEN off + Len(chunk) ELSE Len(content)
    IN  [i \in 1..n |-> IF i > off /\ i <= off + Len(chunk) THEN chunk[i - off]
                        ELSE content[i]]

---------------------------------------------------------------------------
(* VirtualFS: the calls of the engine, by the medium bound to it *)

\* Open that hands out an empty stream for a name that is not stored
OpenLenient(v, keyname) ==
    IF v.kind = "mem"
    THEN [err |-> "nil", buf |-> MemOpen(v, keyname).buf]
    ELSE [err |-> "nil", buf |-> FileOpen(v, keyname).buf]

Open(v, keyname) == IF v.kind = "mem" THEN MemOpen(v, keyname) ELSE FileOpen(v, keyname)

Create(v, keyname, fails) ==
    IF v.kind = "mem" THEN [vfs |-> MemCreate(v, keyname), err |-> "nil"]
    ELSE FileCreate(v, keyname, fails)

Delete(v, keyname, fails) ==
    IF v.kind = "mem" THEN [vfs |-> MemDelete(v, keyname), err |-> "nil"]
    ELSE FileDelete(v, keyname, fails)

Exists(v, keyname) ==
    IF v.kind = "mem" THEN MemExists(v, keyname) ELSE FileExists(v, keyname)

Rename(v, oldkey, newkey, fault) ==
    IF v.kind = "mem" THEN MemRename(v, oldkey, newkey)
    ELSE FileRename(v, oldkey, newkey, fault)

Keyname(v, key) ==
    IF v.kind = "mem" THEN [ok |-> TRUE, name |-> MemKeyname(key)]
    ELSE FileKeyname(v, key)

\* TmpKeyname without the ".new" that tells a temporary from a finished blob
TmpKeynameNoSuffix(v, seed, size) ==
    IF v.kind = "mem" THEN EncodeToString(RandomBytes(seed, size))
    ELSE << v.dir, EncodeToString(RandomBytes(seed, size)) >>

TmpKeyname(v, seed, size) ==
    IF v.kind = "mem" THEN MemTmpKeyname(seed, size) ELSE FileTmpKeyname(v, seed, size)

\* newblob.Write(chunk) on the writer Create returned, at its offset off
WriteTo(v, keyname, off, chunk) ==
    IF v.kind = "mem"
    THEN [v EXCEPT !.blobs = MapSet(v.blobs, keyname, v.blobs[keyname] \o chunk)]
    ELSE [v EXCEPT !.files = MapSet(v.files, keyname, WriteAt(v.files[keyname], off, chunk))]

\* What is stored under a location name, and the stored names
Stored(v) == IF v.kind = "mem" THEN v.blobs ELSE v.files

---------------------------------------------------------------------------
(* checkedReader *)

\* cr.Reader.Read(buf) on a stream with the given unread bytes and len(buf) = size:
\* the bytes it yields and its error.  A bytes.Buffer and an os.File report io.EOF
\* on a read of their own, with no bytes; an eager reader reports it with the last ones.
SourceRead(unread, size, eager) ==
    IF unread = <<>> THEN [data |-> <<>>, err |-> "EOF"]
    ELSE LET n == Min(size, Len(unread))
         IN  [data |-> SubSeq(unread, 1, n),
              err  |-> IF eager /\ n = Len(unread) THEN "EOF" ELSE "nil"]

\* checkedReader.Read with the digest taken before the bytes of this read are hashed
CheckedReadStale(key, hashed, u) ==
    LET fed == IF Len(u.data) > 0 THEN hashed \o u.data ELSE hashed
    IN  IF u.err # "nil" /\ u.err = "EOF" /\ ~Equals(key, Digest(hashed))
        THEN [hashed |-> fed, data |-> u.data, err |-> "Corrupted"]
        ELSE [hashed |-> fed, data |-> u.data, err |-> u.err]

\* checkedReader.Read that compares the digest on every read, not only at io.EOF
CheckedReadEveryRead(key, hashed, u) ==
    LET fed == IF Len(u.data) > 0 THEN hashed \o u.data ELSE hashed
    IN  IF ~Equals(key, Digest(fed))
        THEN [hashed |-> fed, data |-> u.data, err |-> "Corrupted"]
        ELSE [hashed |-> fed, data |-> u.data, err |-> u.err]

\* checkedReader.Read: u is what the wrapped reader returned, hashed the bytes
\* the hasher was fed so far.
CheckedRead(key, hashed, u) ==
    LET fed == IF Len(u.data) > 0 THEN hashed \o u.data ELSE hashed
    IN  IF u.err # "nil" /\ u.err = "EOF" /\ ~Equals(key, Digest(fed))
        THEN [hashed |-> fed, data |-> u.data, err |-> "Corrupted"]
        ELSE [hashed |-> fed, data |-> u.data, err |-> u.err]

\* The consumer's loop (readAll, ioutil.ReadAll): Read until an error is returned,
\* or calls times when calls > 0 (a consumer that stops early).  Yields the bytes delivered, the last error and
\* what the stream has left.
RECURSIVE Consume(_, _, _, _, _, _, _)
Consume(key, hashed, unread, data, size, eager, calls) ==
    LET u    == SourceRead(unread, size, eager)
        r    == CheckedRead(key, hashed, u)
        rest == SubSeq(unread, Len(u.data) + 1, Len(unread))
    IN  IF r.err # "nil" \/ calls = 1
        THEN [unread |-> rest, data |-> data \o r.data, err |-> r.err]
        ELSE Consume(key, r.hashed, rest, data \o r.data, size, eager,
                     IF calls > 0 THEN calls - 1 ELSE calls)

---------------------------------------------------------------------------
(* VFSBlobServer: the engine *)

\* VFSBlobServer.Read without the check of the length of the key
ReadUnchecked(v, key) ==
    LET kn == Keyname(v, key)
    IN  IF ~kn.ok
        THEN [reader |-> FALSE, err |-> "panic", name |-> <<>>, calls |-> <<"Keyname">>]
        ELSE [reader |-> Open(v, kn.name).err = "nil", err |-> Open(v, kn.name).err,
              name |-> kn.name, calls |-> <<"Keyname", "Open">>]

\* VFSBlobServer.Read: reader tells whether a checkedReader is returned, calls
\* lists the calls made on the VirtualFS.
Read(v, key) ==
    IF Len(key) < HashSize
    THEN [reader |-> FALSE, err |-> "ShortKey", name |-> <<>>, calls |-> <<>>]
    ELSE LET kn == Keyname(v, key)
         IN  IF ~kn.ok
             THEN [reader |-> FALSE, err |-> "panic", name |-> <<>>, calls |-> <<"Keyname">>]
             ELSE [reader |-> Open(v, kn.name).err = "nil", err |-> Open(v, kn.name).err,
                   name |-> kn.name, calls |-> <<"Keyname", "Open">>]

\* Read and the consumer of its reader, which calls Read with a buffer of size
\* bytes until an error (calls = 0) or calls times.  Reading the reader of the
\* memory medium takes the bytes out of the stored buffer.
ReadAll(v, key, size, calls) ==
    LET rd == Read(v, key)
    IN  IF ~rd.reader
        THEN [vfs |-> v, reader |-> FALSE, err |-> rd.err, data |-> <<>>, calls |-> rd.calls]
        ELSE LET c == Consume(key, <<>>, Open(v, rd.name).buf, <<>>, size, FALSE, calls)
             IN  [vfs    |-> IF v.kind = "mem"
                             THEN [v EXCEPT !.blobs = MapSet(v.blobs, rd.name, c.unread)]
                             ELSE v,
                  reader |-> TRUE, err |-> c.err, data |-> c.data, calls |-> rd.calls]

\* The end of VFSBlobServer.Write without the Exists branch: it always renames
WriteFinishNoDedup(v, tmpKeyname, hashed, fault) ==
    LET key     == Digest(hashed)
        keyname == Keyname(v, key)
        r       == Rename(v, tmpKeyname, keyname.name, fault)
    IN  IF ~keyname.ok THEN [vfs |-> v, key |-> NilKey, err |-> "panic", branch |-> "none"]
        ELSE [vfs |-> r.vfs, key |-> key, err |-> r.err, branch |-> "rename"]

\* The end of VFSBlobServer.Write, once io.Copy returned no error: hashed are the
\* bytes the hasher was fed.
WriteFinish(v, tmpKeyname, hashed, fault) ==
    LET key     == Digest(hashed)
        keyname == Keyname(v, key)
    IN  IF ~keyname.ok THEN [vfs |-> v, key |-> NilKey, err |-> "panic", branch |-> "none"]
        ELSE IF Exists(v, keyname.name)
        THEN LET d == Delete(v, tmpKeyname, fault = "delete")
             IN  [vfs |-> d.vfs, key |-> key, err |-> d.err, branch |-> "dedup"]
        ELSE LET r == Rename(v, tmpKeyname, keyname.name, fault)
             IN  [vfs |-> r.vfs, key |-> key, err |-> r.err, branch |-> "rename"]

\* VFSBlobServer.Write.  fault names the call that fails, if any; a copy that
\* fails does so after failAt bytes.  The err of `_, err := io.Copy(...)` is a
\* variable of the inner block: after a failed copy the function returns the
\* err of Create.
Write(v, blob, seed, fault, failAt) ==
    LET tmpKeyname == TmpKeyname(v, seed, HashSize)
        created    == Create(v, tmpKeyname, fault = "create")
    IN  IF created.err # "nil"
        THEN [vfs |-> created.vfs, key |-> NilKey, err |-> created.err, branch |-> "none"]
        ELSE LET n       == IF fault = "copy" THEN failAt ELSE Len(blob)
                 copied  == WriteTo(created.vfs, tmpKeyname, 0, SubSeq(blob, 1, n))
                 copyErr == IF fault = "copy" THEN "IOError" ELSE "nil"
             IN  IF copyErr = "nil"
                 THEN WriteFinish(copied, tmpKeyname, SubSeq(blob, 1, n), fault)
                 ELSE [vfs |-> copied, key |-> NilKey, err |-> created.err, branch |-> "none"]

\* VFSBlobServer.Remove
Remove(v, key, fails) ==
    LET keyname == Keyname(v, key)
    IN  IF ~keyname.ok THEN [vfs |-> v, err |-> "panic"]
        ELSE IF Exists(v, keyname.name) THEN Delete(v, keyname.name, fails)
        ELSE [vfs |-> v, err |-> "nil"]

\* The faults a medium can report to Write: the memory medium never fails.
Faults(v) ==
    IF v.kind = "mem" THEN {"none", "copy"}
    ELSE {"none", "create", "copy", "delete", "mkdir", "rename"}

---------------------------------------------------------------------------
(* Enumeration: List, the ListTo of the two media, and the keys channel    *)

\* VFS_ROOT = "": the empty path
VFS_ROOT == << >>

\* Most entries one Readdir call returns
FilesAtOnce == 10

\* keys := make(chan KeyOrError), with the goroutine that sends on it: what was
\* sent, whether the channel is closed, the run-time panic of the goroutine, after
\* which it does nothing more, and how many of its directory operations failed
NewChan == [sent |-> << >>, closed |-> FALSE, panic |-> "none", failed |-> 0]

\* os.Open or Readdir returned an error
DirFails(ch) == [ch EXCEPT !.failed = @ + 1]

\* keys <- e
Send(ch, e) ==
    IF ch.panic # "none" THEN ch
    ELSE IF ch.closed THEN [ch EXCEPT !.panic = "send on closed channel"]
    ELSE [ch EXCEPT !.sent = Append(@, e)]

\* close(keys)
Close(ch) ==
    IF ch.panic # "none" THEN ch
    ELSE IF ch.closed THEN [ch EXCEPT !.panic = "close of closed channel"]
    ELSE [ch EXCEPT !.closed = TRUE]

\* VFSBlobServer.acceptor: the key of a name, NilKey for a name that is refused
acceptor(name) ==
    LET d == DecodeString(name)
    IN  IF d.ok /\ Len(d.bytes) = HashSize THEN d.bytes ELSE NilKey

\* failKeyOrError that returns true
failKeyOrErrorTrue(ch, err) ==
    [ch |-> Close(Send(ch, [key |-> NilKey, err |-> err])), ok |-> TRUE]

\* failKeyOrError
failKeyOrError(ch, err) ==
    [ch |-> Close(Send(ch, [key |-> NilKey, err |-> err])), ok |-> FALSE]

\* for _, keyname := range mem.keynames, from the i-th name on
RECURSIVE MemListLoop(_, _, _)
MemListLoop(keynames, i, ch) ==
    IF i > Len(keynames) THEN ch
    ELSE LET key == acceptor(keynames[i])
         IN  MemListLoop(keynames, i + 1,
                         IF key # NilKey THEN Send(ch, [key |-> key, err |-> "nil"]) ELSE ch)

\* memBlobs.ListTo
MemListTo(mem, ch) == [ch |-> MemListLoop(mem.keynames, 1, ch), ok |-> TRUE]

\* The names of the entries of directory dir
Entries(fb, dir) ==
    { p[Len(dir) + 1] : p \in { q \in DOMAIN fb.files \cup fb.dirs :
                                 Len(q) = Len(dir) + 1 /\ SubSeq(q, 1, Len(dir)) = dir } }

\* The orders in which Readdir can return the entries of a directory: the order
\* of the directory, which is any
Orders(S) ==
    { f \in [1..Cardinality(S) -> S] : \A i, j \in 1..Cardinality(S) : i # j => f[i] # f[j] }

\* Whether the directory operations of a listing can fail: none does, or any
\* os.Open and any Readdir may
NoFault  == "none"
AnyFault == "any"

\* fileBlobs.ListTo.  The traversal depends on the order of the directories, so
\* each operator yields the set of its outcomes started with channel ch: the
\* channel afterwards and ok, the boolean that ListTo returns.
RECURSIVE FileListTo(_, _, _, _), ReaddirLoop(_, _, _, _, _, _, _), ForEntries(_, _, _, _, _, _)

\* for _, fileInfo := range fileInfos, from the i-th entry of the batch on
ForEntries(fb, ch, dir, batch, i, fault) ==
    IF i > Len(batch) THEN { [ch |-> ch, ok |-> TRUE] }
    ELSE LET path == Append(dir, batch[i])
         IN  IF path \in fb.dirs
             THEN UNION { IF r.ok THEN ForEntries(fb, r.ch, dir, batch, i + 1, fault)
                          ELSE { [ch |-> r.ch, ok |-> FALSE] } :
                          r \in FileListTo(fb, ch, path, fault) }
             ELSE LET filename == IF ContainsDot(batch[i]) THEN BeforeDot(batch[i])
                                  ELSE batch[i]
                      key      == acceptor(filename)
                  IN  ForEntries(fb,
                                 IF key # NilKey THEN Send(ch, [key |-> key, err |-> "nil"])
                                 ELSE ch,
                                 dir, batch, i + 1, fault)

\* for { fileInfos, err := root.Readdir(FilesAtOnce) ... }: order is the order of
\* the directory, off the entries read so far, call the number of this Readdir,
\* which fails, or returns io.EOF (no entry left) or the next batch
ReaddirLoop(fb, ch, dir, order, off, call, fault) ==
    LET batch == SubSeq(order, off + 1, Min(off + FilesAtOnce, Len(order)))
    IN  (IF fault = AnyFault THEN { failKeyOrError(DirFails(ch), "IOError") } ELSE {})
        \cup
        (IF off >= Len(order) THEN { [ch |-> ch, ok |-> TRUE] }
         ELSE UNION { IF r.ok
                      THEN ReaddirLoop(fb, r.ch, dir, order, off + Len(batch), call + 1, fault)
                      ELSE { r } :
                      r \in ForEntries(fb, ch, dir, batch, 1, fault) })

FileListTo(fb, ch, dir, fault) ==
    LET d == IF dir = VFS_ROOT THEN << fb.dir >> ELSE dir
    IN  (IF fault = AnyFault THEN { failKeyOrError(DirFails(ch), "IOError") } ELSE {})
        \cup
        UNION { ReaddirLoop(fb, ch, d, order, 0, 1, fault) : order \in Orders(Entries(fb, d)) }

\* VirtualFS.ListTo
ListTo(v, ch, fault) ==
    IF v.kind = "mem" THEN { MemListTo(v, ch) } ELSE FileListTo(v, ch, VFS_ROOT, fault)

\* VFSBlobServer.List with its channel drained by the caller: the channels it
\* can end with.  List closes the channel when ListTo returns true.
ListEnd(r) == IF r.ok THEN Close(r.ch) ELSE r.ch

List(v, fault) == { ListEnd(r) : r \in ListTo(v, NewChan, fault) }

\* The older FileBlobServer (package blobserver), which keeps its files as
\* fileBlobs does.  listTo lists an open directory: opened is FALSE for the nil
\* *os.File that a failed os.Open returned, whose Readdir fails.  The result of
\* failKeyOrError is not used.  A goroutine that panicked does nothing more: ok is
\* FALSE then.
RECURSIVE listTo(_, _, _, _, _), listToLoop(_, _, _, _, _, _, _), listToEntries(_, _, _, _, _, _)

\* for _, fileInfo := range fileInfos, from the i-th entry of the batch on
listToEntries(fb, ch, dir, batch, i, fault) ==
    IF ch.panic # "none" THEN { [ch |-> ch, ok |-> FALSE] }
    ELSE IF i > Len(batch) THEN { [ch |-> ch, ok |-> TRUE] }
    ELSE LET path == Append(dir, batch[i])
         IN  IF path \in fb.dirs
             THEN LET failed == failKeyOrError(DirFails(ch), "IOError").ch
                      subs   == listTo(fb, ch, path, TRUE, fault) \cup
                                (IF fault = AnyFault
                                 THEN listTo(fb, failed, path, FALSE, fault) ELSE {})
                  IN  UNION { IF r.ok THEN listToEntries(fb, r.ch, dir, batch, i + 1, fault)
                              ELSE { [ch |-> r.ch, ok |-> FALSE] } : r \in subs }
             ELSE LET filename == IF ContainsDot(batch[i]) THEN BeforeDot(batch[i])
                                  ELSE batch[i]
                      bytes    == DecodeString(filename)
                  IN  listToEntries(fb,
                                    IF bytes.ok /\ Len(bytes.bytes) = HashSize
                                    THEN Send(ch, [key |-> bytes.bytes, err |-> "nil"])
                                    ELSE ch,
                                    dir, batch, i + 1, fault)

\* for { fileInfos, err := root.Readdir(FilesAtOnce) ... }: a Readdir that fails
\* returns no entry, and the loop goes on
listToLoop(fb, ch, dir, opened, order, off, fault) ==
    LET batch == SubSeq(order, off + 1, Min(off + FilesAtOnce, Len(order)))
    IN  IF ch.panic # "none" THEN { [ch |-> ch, ok |-> FALSE] }
        ELSE (IF fault = AnyFault \/ ~opened
              THEN listToLoop(fb, failKeyOrError(DirFails(ch), "IOError").ch,
                              dir, opened, order, off, fault)
              ELSE {})
             \cup
             (IF ~opened THEN {}
              ELSE IF off >= Len(order) THEN { [ch |-> ch, ok |-> TRUE] }
              ELSE UNION { IF r.ok
                           THEN listToLoop(fb, r.ch, dir, opened, order,
                                           off + Len(batch), fault)
                           ELSE { r } :
                           r \in listToEntries(fb, ch, dir, batch, 1, fault) })

\* FileBlobServer.listTo
listTo(fb, ch, dir, opened, fault) ==
    UNION { listToLoop(fb, ch, dir, opened, order, 0, fault) :
            order \in Orders(Entries(fb, dir)) }

\* FileBlobServer.List with its channel drained by the caller: the error it
\* returns and the channels it can end with
FileBlobServerList(fb, fault) ==
    (IF fault = AnyFault THEN { [err |-> "IOError", ch |-> NewChan] } ELSE {})
    \cup
    { [err |-> "nil", ch |-> IF r.ok THEN Close(r.ch) ELSE r.ch] :
      r \in listTo(fb, NewChan, << fb.dir >>, TRUE, fault) }

\* What the caller that ranges over the channel receives
Yielded(ch)  == [i \in 1..Len(ch.sent) |-> ch.sent[i].key]
HasError(ch) == \E i \in 1..Len(ch.sent) : ch.sent[i].err # "nil"

---------------------------------------------------------------------------
(* The channel of a List() call, with the goroutine that sends on it and   *)
(* the caller that receives from it                                        *)

\* A channel made with room for one element
MakeChanBuffered == [cap |-> 1, buf |-> << >>, closed |-> FALSE]

\* keys := make(chan KeyOrError): no capacity is given, the channel is unbuffered
MakeChan == [cap |-> 0, buf |-> << >>, closed |-> FALSE]

\* No List() call was made.  pc is where the goroutine stands and cons what the
\* caller does with the channel; stack holds the directories being listed, dir
\* the one to open; n, i and view are the range over mem.keynames: its length, its
\* position and the elements of the array the range reads, which is the array of
\* mem.keynames as long as shared; cap is the capacity of mem.keynames; elem is
\* the element being sent and after where the goroutine goes on; sent are the
\* sends completed and recv the elements received, in order; stable are the keys
\* stored when List was called and not removed since.
NoList ==
    [pc |-> "none", keys |-> MakeChan, cons |-> "none", stack |-> << >>, dir |-> << >>,
     n |-> 0, i |-> 0, view |-> << >>, shared |-> FALSE, cap |-> 0,
     elem |-> [key |-> NilKey, err |-> "nil"], after |-> "none",
     sent |-> << >>, recv |-> << >>, closes |-> 0, closer |-> "none", failed |-> 0,
     stable |-> {}]

---------------------------------------------------------------------------
(* Inputs *)

DigestKeys == { Digest(b) : b \in Blobs }

\* Keys shorter than the digest, and one longer
ShortKeys == { NilKey, SubSeq(Digest(Blob(0)), 1, HashSize - 1) }
LongKeys  == { Digest(Blob(1)) \o << 0 >> }

Keys == DigestKeys \cup ShortKeys \cup LongKeys

\* The blob whose digest is key
BlobOf(key) == CHOOSE b \in Blobs : Digest(b) = key

\* Contents of the streams a checkedReader is built over
Contents == Blobs \cup { Tail(b) : b \in Blobs \ { <<>> } }

\* Expected keys of a checkedReader
ReaderKeys == { Digest(c) : c \in Contents } \cup ShortKeys \cup LongKeys

Writers == { "w1", "w2" }

\* The names given to insert and extract: canonical and temporary names
IndexNames ==
    { MemKeyname(k) : k \in DigestKeys } \cup { MemTmpKeyname(sd, HashSize) : sd \in Seeds }

---------------------------------------------------------------------------
(* The sequential caller: one engine call at a time, each one whole.       *)
(* last keeps the call and what it returned; note is the branch Write      *)
(* took, or how the reader was consumed.                                   *)

NoCall ==
    [op |-> "none", blob |-> <<>>, key |-> NilKey, size |-> 0, err |-> "nil",
     data |-> <<>>, note |-> "none"]

Idle == [pc |-> "idle", blob |-> <<>>, seed |-> 0, off |-> 0, key |-> NilKey, err |-> "nil"]

Init ==
    /\ vfs \in { newMemBlobs, newFileBlobs }
    /\ used = {}
    /\ last = NoCall
    /\ wr = [w \in Writers |-> Idle]
    /\ present = [n \in IndexNames |-> 0]
    /\ ls = NoList

\* key, err := store.Write(blob)
DoWrite ==
    \E blob \in Blobs, seed \in Seeds \ used, fault \in Faults(vfs) :
      \E failAt \in IF fault = "copy" THEN 0..Len(blob) ELSE {0} :
        LET w == Write(vfs, blob, seed, fault, failAt)
        IN  /\ vfs' = w.vfs
            /\ used' = used \cup {seed}
            /\ last' = [NoCall EXCEPT !.op = "Write", !.err = w.err, !.note = w.branch]
            /\ UNCHANGED <<wr, present, ls>>

\* reader, err := store.Read(key), and the reader consumed
DoRead ==
    \E key \in Keys :
        LET r == ReadAll(vfs, key, MaxChunk, 0)
        IN  /\ vfs' = r.vfs
            /\ last' = [NoCall EXCEPT !.op = "Read", !.err = r.err]
            /\ UNCHANGED <<used, wr, present, ls>>

\* err := store.Remove(key)
DoRemove ==
    \E key \in Keys, fails \in IF vfs.kind = "mem" THEN {FALSE} ELSE BOOLEAN :
        LET r == Remove(vfs, key, fails)
        IN  /\ vfs' = r.vfs
            /\ last' = [NoCall EXCEPT !.op = "Remove", !.err = r.err]
            /\ UNCHANGED <<used, wr, present, ls>>

Next == DoWrite \/ DoRead \/ DoRemove

Spec == Init /\ [][Next]_vars

---------------------------------------------------------------------------
(* The checkedReader on streams of its own (TestCheckedReader) *)

\* A checkedReader over a stream with the given content, read to its end with
\* buffers of size bytes
DoCheckedReader ==
    \E content \in Contents, key \in ReaderKeys, size \in 1..MaxChunk, eager \in BOOLEAN :
        LET c == Consume(key, <<>>, content, <<>>, size, eager, 0)
        IN  /\ last' = [op |-> "checkedReader", blob |-> content, key |-> key,
                        size |-> size, err |-> c.err, data |-> c.data,
                        note |-> IF eager THEN "eager" ELSE "lazy"]
            /\ UNCHANGED <<vfs, used, wr, present, ls>>

SpecReader == Init /\ [][DoCheckedReader]_vars

---------------------------------------------------------------------------
(* insert and extract called on the index of a new memBlobs (TestOrdering) *)

\* mb.insert(name)
DoInsert ==
    /\ vfs.kind = "mem"
    /\ Len(vfs.keynames) < MaxIndex
    /\ \E name \in IndexNames :
         /\ vfs' = [vfs EXCEPT !.keynames = insert(vfs.keynames, name)]
         /\ present' = [present EXCEPT ![name] = @ + 1]
         /\ last' = [NoCall EXCEPT !.op = "insert", !.size = Len(vfs.keynames)]
    /\ UNCHANGED <<used, wr, ls>>

\* mb.extract(name); a call that panics leaves the index as it was
DoExtract ==
    /\ vfs.kind = "mem"
    /\ \E name \in IndexNames :
         LET ex == extract(vfs.keynames, name)
         IN  /\ vfs' = [vfs EXCEPT !.keynames = ex.keynames]
             /\ present' = [present EXCEPT ![name] = IF @ > 0 THEN @ - 1 ELSE @]
             /\ last' = [NoCall EXCEPT !.op = "extract", !.size = Len(vfs.keynames),
                                       !.err = IF ex.panic THEN "panic" ELSE "nil",
                                       !.data = << IF ex.found THEN 1 ELSE 0 >>,
                                       !.note = IF present[name] > 0 THEN "present"
                                                ELSE "absent"]
    /\ UNCHANGED <<used, wr, ls>>

NextIndex == DoInsert \/ DoExtract

SpecIndex == Init /\ [][NextIndex]_vars

---------------------------------------------------------------------------
(* Concurrent callers: every call on the VirtualFS is one step, and the    *)
(* steps of the Write calls in flight interleave with each other and with  *)
(* whole Read and Remove calls.  io.Copy moves one byte per step.          *)
(* The results of the calls are read off wr and the store.                 *)

TmpOf(w) == TmpKeyname(vfs, wr[w].seed, HashSize)

\* tmpKeyname := vbs.TmpKeyname(vbs.hash.Size()); newblob, err := vbs.Create(tmpKeyname)
WBegin(w) ==
    /\ wr[w].pc \in {"idle", "done"}
    /\ \E blob \in Blobs, seed \in Seeds \ used :
         /\ vfs' = Create(vfs, TmpKeyname(vfs, seed, HashSize), FALSE).vfs
         /\ used' = used \cup {seed}
         /\ wr' = [wr EXCEPT ![w] = [Idle EXCEPT !.pc = "copy", !.blob = blob, !.seed = seed]]
    /\ UNCHANGED <<last, present, ls>>

\* io.Copy(io.MultiWriter(newblob, hasher), blob): the next byte
WCopy(w) ==
    /\ wr[w].pc = "copy"
    /\ wr[w].off < Len(wr[w].blob)
    /\ vfs' = WriteTo(vfs, TmpOf(w), wr[w].off, << wr[w].blob[wr[w].off + 1] >>)
    /\ wr' = [wr EXCEPT ![w].off = @ + 1]
    /\ UNCHANGED <<used, last, present, ls>>

\* key := Key(hasher.Sum(nil)); keyname := vbs.Keyname(key); vbs.Exists(keyname)
WCheck(w) ==
    /\ wr[w].pc = "copy"
    /\ wr[w].off = Len(wr[w].blob)
    /\ LET key == Digest(SubSeq(wr[w].blob, 1, wr[w].off))
       IN  wr' = [wr EXCEPT ![w].key = key,
                            ![w].pc = IF Exists(vfs, Keyname(vfs, key).name)
                                      THEN "delete" ELSE "rename"]
    /\ UNCHANGED <<vfs, used, last, present, ls>>

\* err = vbs.Delete(tmpKeyname); return key, err
WDelete(w) ==
    /\ wr[w].pc = "delete"
    /\ LET d == Delete(vfs, TmpOf(w), FALSE)
       IN  /\ vfs' = d.vfs
           /\ wr' = [wr EXCEPT ![w].pc = "done", ![w].err = d.err]
    /\ UNCHANGED <<used, last, present, ls>>

\* err = vbs.Rename(tmpKeyname, keyname); return key, err
WRename(w) ==
    /\ wr[w].pc = "rename"
    /\ LET r == Rename(vfs, TmpOf(w), Keyname(vfs, wr[w].key).name, "none")
       IN  /\ vfs' = r.vfs
           /\ wr' = [wr EXCEPT ![w].pc = "done", ![w].err = r.err]
    /\ UNCHANGED <<used, last, present, ls>>

WStep == \E w \in Writers : WBegin(w) \/ WCopy(w) \/ WCheck(w) \/ WDelete(w) \/ WRename(w)

\* A whole Read(key) of another caller, its reader consumed to the end
CRead ==
    /\ \E key \in DigestKeys : vfs' = ReadAll(vfs, key, MaxChunk, 0).vfs
    /\ UNCHANGED <<used, last, wr, present, ls>>

\* A whole Remove(key) of another caller
CRemove ==
    /\ \E key \in DigestKeys : vfs' = Remove(vfs, key, FALSE).vfs
    /\ UNCHANGED <<used, last, wr, present, ls>>

NextConc == WStep \/ CRead \/ CRemove

SpecConc == Init /\ [][NextConc]_vars

\* Write calls alone
SpecWriters == Init /\ [][WStep]_vars

\* A whole Write(blob) of another caller
CWrite ==
    /\ \E blob \in Blobs, seed \in Seeds \ used, fault \in Faults(vfs) :
         \E failAt \in IF fault = "copy" THEN 0..Len(blob) ELSE {0} :
           /\ vfs' = Write(vfs, blob, seed, fault, failAt).vfs
           /\ used' = used \cup {seed}
    /\ UNCHANGED <<last, wr, present, ls>>

\* The stores that whole Write and Remove calls build, for the listing of them
NextStore == CWrite \/ CRemove

SpecStore == Init /\ [][NextStore]_vars

\* Concurrent Remove calls: Exists and Delete are steps of their own.
\* keyname := vbs.Keyname(key); vbs.Exists(keyname)
RBegin(w) ==
    /\ wr[w].pc = "idle"
    /\ \E key \in DigestKeys :
         wr' = [wr EXCEPT ![w] = [Idle EXCEPT !.key = key,
                                               !.pc = IF Exists(vfs, Keyname(vfs, key).name)
                                                      THEN "rdelete" ELSE "removed"]]
    /\ UNCHANGED <<vfs, used, last, present, ls>>

\* err = vbs.Delete(keyname); return err
RDelete(w) ==
    /\ wr[w].pc = "rdelete"
    /\ LET d == Delete(vfs, Keyname(vfs, wr[w].key).name, FALSE)
       IN  /\ vfs' = d.vfs
           /\ wr' = [wr EXCEPT ![w].pc = "removed", ![w].err = d.err]
    /\ UNCHANGED <<used, last, present, ls>>

RStep == \E w \in Writers : RBegin(w) \/ RDelete(w)

\* Whole Write calls, and Remove calls that interleave
NextRemovers == DoWrite \/ RStep

SpecRemovers == Init /\ [][NextRemovers]_vars

---------------------------------------------------------------------------
(* What a store holds *)

\* The last element of a location name: the name itself in memory, the file
\* name of a path
Leaf(v, name) == IF v.kind = "mem" THEN name ELSE name[Len(name)]

\* A temporary location name ends in ".new".
IsTemporary(v, name) ==
    LET leaf == Leaf(v, name)
    IN  /\ Len(leaf) >= Len(DotNew)
        /\ SubSeq(leaf, Len(leaf) - Len(DotNew) + 1, Len(leaf)) = DotNew

\* The stored names that are canonical locations, and the key each one stands for
CanonicalNames(v) == { n \in DOMAIN Stored(v) : ~IsTemporary(v, n) }
KeyOfName(v, name) == DecodeString(BeforeDot(Leaf(v, name))).bytes

\* Is there an object at the canonical location of key
Present(v, key) == Keyname(v, key).ok /\ Keyname(v, key).name \in DOMAIN Stored(v)

\* The canonical objects: the stored content by canonical location
Canonical(v) == [n \in CanonicalNames(v) |-> Stored(v)[n]]

\* Has key been written and removed again: the memory index, or the shard
\* directories, still tell
WasRemoved(v, key) ==
    /\ ~Present(v, key)
    /\ IF v.kind = "mem"
       THEN \E i \in 1..Len(v.keynames) : v.keynames[i] = MemKeyname(key)
       ELSE ParentDirs(Keyname(v, key).name) \subseteq v.dirs

\* The keys of the stored blobs
PresentKeys(v) == { KeyOfName(v, n) : n \in CanonicalNames(v) }

\* No temporary object is stored
NoTemporary(v) == CanonicalNames(v) = DOMAIN Stored(v)

\* Every Write so far stored a blob of its own and none was removed
OnlyDistinctWrites == NoTemporary(vfs) /\ Cardinality(CanonicalNames(vfs)) = Cardinality(used)

\* The hex strings of a sequence of keys, and their ascending order
Hex(keys) == [i \in 1..Len(keys) |-> EncodeToString(keys[i])]
Ascending(names) == \A i \in 1..(Len(names) - 1) : StrLess(names[i], names[i + 1])

\* A drained List() yields exactly the keys of the stored blobs, each once, and
\* no error, whatever the order of the directories
ListsExactly(v) ==
    \A ch \in List(v, NoFault) :
        /\ ch.closed /\ ch.panic = "none" /\ ~HasError(ch)
        /\ { Yielded(ch)[i] : i \in 1..Len(ch.sent) } = PresentKeys(v)
        /\ Len(ch.sent) = Cardinality(PresentKeys(v))

\* How often name occurs in the index
Occurrences(keynames, name) == Cardinality({ i \in 1..Len(keynames) : keynames[i] = name })

\* sort.StringsAreSorted
StringsAreSorted(a) == \A i \in 1..(Len(a) - 1) : ~StrLess(a[i + 1], a[i])

\* What a caller can observe of a store: for each key what Read and its reader
\* deliver, and what a drained List() can yield
Observable(v) ==
    [read |-> [k \in DigestKeys |->
                   LET r == ReadAll(v, k, MaxChunk, 0)
                   IN  [reader |-> r.reader, err |-> r.err, data |-> r.data]],
     list |-> { ch.sent : ch \in List(v, NoFault) }]

\* Random seeds no TmpKeyname of the behaviour has drawn
FreshSeed  == MaxSeeds + 1
FreshSeed2 == MaxSeeds + 2

\* Keys of at least 4 bytes: digests, random keys, and each with one more byte
PathKeys ==
    LET base == DigestKeys \cup { RandomBytes(FreshSeed, HashSize) }
    IN  base \cup { k \o << 0 >> : k \in base }

\* Every key shorter than the digest: the proper prefixes of the digests
AllShortKeys == { SubSeq(k, 1, n) : k \in DigestKeys, n \in 0..(HashSize - 1) }

---------------------------------------------------------------------------
(* A List() call step by step.  The goroutine that List starts runs ListTo  *)
(* one statement at a time; the caller receives, or gives up.  Other        *)
(* callers make whole Write and Remove calls: apart from a listing that is  *)
(* being received, or at any time.                                          *)

\* keys := make(chan KeyOrError); go func() {...}(); return keys
LBegin ==
    /\ ls.pc = "none"
    /\ ls' = [ls EXCEPT !.pc = "listto", !.keys = MakeChan, !.cons = "busy",
                        !.stable = PresentKeys(vfs)]
    /\ UNCHANGED <<vfs, used, last, wr, present>>

\* vbs.ListTo(keys, vbs.acceptor, VFS_ROOT) is entered: memBlobs evaluates the
\* range expression mem.keynames, fileBlobs takes vfs.dir for VFS_ROOT
LListTo ==
    /\ ls.pc = "listto"
    /\ ls' = IF vfs.kind = "mem"
             THEN [ls EXCEPT !.pc = "range", !.n = Len(vfs.keynames), !.i = 0,
                             !.view = vfs.keynames, !.shared = TRUE]
             ELSE [ls EXCEPT !.pc = "open", !.dir = << vfs.dir >>]
    /\ UNCHANGED <<vfs, used, last, wr, present>>

\* The goroutine at keys <- e, with where it goes on after the send
Sending(l, e, after) == [l EXCEPT !.pc = "send", !.elem = e, !.after = after]

\* failKeyOrError(keys, err) is entered.  It ends in return false, which every
\* ListTo on the stack returns in turn: the directories on the stack are left.
Failing(l) ==
    Sending([l EXCEPT !.failed = @ + 1, !.stack = << >>, !.dir = << >>],
            [key |-> NilKey, err |-> "IOError"], "failclose")

\* memBlobs.ListTo: one turn of for _, keyname := range mem.keynames; the end
\* of the range is return true
LRange ==
    /\ ls.pc = "range"
    /\ ls' = IF ls.i >= ls.n THEN [ls EXCEPT !.pc = "close"]
             ELSE LET key  == acceptor(ls.view[ls.i + 1])
                      next == [ls EXCEPT !.i = @ + 1]
                  IN  IF key # NilKey
                      THEN Sending(next, [key |-> key, err |-> "nil"], "range")
                      ELSE next
    /\ UNCHANGED <<vfs, used, last, wr, present>>

\* fileBlobs.ListTo: root, err := os.Open(dir)
LOpen ==
    /\ ls.pc = "open"
    /\ \E fails \in BOOLEAN :
         ls' = IF fails THEN Failing(ls)
               ELSE [ls EXCEPT !.pc = "readdir",
                               !.stack = Append(@, [dir |-> ls.dir, batch |-> {},
                                                    seen |-> {}])]
    /\ UNCHANGED <<vfs, used, last, wr, present>>

\* The batches a Readdir(FilesAtOnce) can return of the entries not read yet
Batches(unseen) ==
    { b \in SUBSET unseen : Cardinality(b) = Min(FilesAtOnce, Cardinality(unseen)) }

\* fileInfos, err := root.Readdir(FilesAtOnce): an error, io.EOF when the
\* directory has no entry left (return true), or the next entries
LReaddir ==
    /\ ls.pc = "readdir"
    /\ LET top    == ls.stack[Len(ls.stack)]
           unseen == Entries(vfs, top.dir) \ top.seen
           popped == SubSeq(ls.stack, 1, Len(ls.stack) - 1)
       IN  \E fails \in BOOLEAN, batch \in Batches(unseen) :
             ls' = IF fails THEN Failing(ls)
                   ELSE IF unseen = {}
                   THEN [ls EXCEPT !.stack = popped,
                                   !.pc = IF popped = << >> THEN "close" ELSE "entry"]
                   ELSE [ls EXCEPT !.pc = "entry",
                                   !.stack[Len(ls.stack)] =
                                       [top EXCEPT !.batch = batch,
                                                   !.seen = top.seen \cup batch]]
    /\ UNCHANGED <<vfs, used, last, wr, present>>

\* One turn of for _, fileInfo := range fileInfos, in the order of the directory,
\* which is any; after the last entry the Readdir loop goes on
LEntry ==
    /\ ls.pc = "entry"
    /\ LET top == ls.stack[Len(ls.stack)]
       IN  IF top.batch = {} THEN ls' = [ls EXCEPT !.pc = "readdir"]
           ELSE \E name \in top.batch :
                \E filename \in { IF ContainsDot(name) THEN BeforeDot(name) ELSE name } :
                \E key \in { acceptor(filename) } :
                  LET rest == [ls EXCEPT !.stack[Len(ls.stack)].batch = @ \ {name}]
                      path == Append(top.dir, name)
                  IN  ls' = IF path \in vfs.dirs
                            THEN [rest EXCEPT !.pc = "open", !.dir = path]
                            ELSE IF key # NilKey
                            THEN Sending(rest, [key |-> key, err |-> "nil"], "entry")
                            ELSE rest
    /\ UNCHANGED <<vfs, used, last, wr, present>>

\* A send that gives the element up when no receiver waits
LSendNoWait ==
    /\ ls.pc = "send"
    /\ ls' = IF ls.cons = "recv"
             THEN [ls EXCEPT !.pc = ls.after, !.cons = "busy",
                             !.sent = Append(@, ls.elem), !.recv = Append(@, ls.elem)]
             ELSE [ls EXCEPT !.pc = ls.after]
    /\ UNCHANGED <<vfs, used, last, wr, present>>

\* keys <- e: the element goes to the receiver that waits, or into the buffer when
\* the channel has room; otherwise the goroutine waits.  On a closed channel the
\* send panics.
LSend ==
    /\ ls.pc = "send"
    /\ \/ ls.keys.closed
       \/ ls.cons = "recv" /\ ls.keys.buf = << >>
       \/ Len(ls.keys.buf) < ls.keys.cap
    /\ ls' = IF ls.keys.closed THEN [ls EXCEPT !.pc = "panic"]
             ELSE IF ls.cons = "recv" /\ ls.keys.buf = << >>
             THEN [ls EXCEPT !.pc = ls.after, !.cons = "busy",
                             !.sent = Append(@, ls.elem), !.recv = Append(@, ls.elem)]
             ELSE [ls EXCEPT !.pc = ls.after, !.keys.buf = Append(@, ls.elem),
                             !.sent = Append(@, ls.elem)]
    /\ UNCHANGED <<vfs, used, last, wr, present>>

\* close(keys) by closer, after which the goroutine ends; on a closed channel
\* the close panics
Closing(l, closer) ==
    IF l.keys.closed THEN [l EXCEPT !.pc = "panic", !.closes = @ + 1]
    ELSE [l EXCEPT !.pc = "done", !.keys.closed = TRUE, !.closes = @ + 1,
                   !.closer = closer, !.stack = << >>, !.view = << >>,
                   !.shared = FALSE]

\* List that ends without close(keys)
LCloseSkipped ==
    /\ ls.pc = "close"
    /\ ls' = [ls EXCEPT !.pc = "done", !.stack = << >>, !.view = << >>, !.shared = FALSE]
    /\ UNCHANGED <<vfs, used, last, wr, present>>

\* ListTo returned true: List executes close(keys)
LClose ==
    /\ ls.pc = "close"
    /\ ls' = Closing(ls, "List")
    /\ UNCHANGED <<vfs, used, last, wr, present>>

\* failKeyOrError after its send: close(keys); return false, so that List does
\* not close
LFailClose ==
    /\ ls.pc = "failclose"
    /\ ls' = Closing(ls, "failKeyOrError")
    /\ UNCHANGED <<vfs, used, last, wr, present>>

\* The steps of the goroutine
LStep ==
    LListTo \/ LRange \/ LOpen \/ LReaddir \/ LEntry \/ LSend \/ LClose \/ LFailClose

\* The caller comes to receive (for k := range keys): it takes a buffered
\* element, sees the channel closed, or waits
CReceive ==
    /\ ls.cons = "busy"
    /\ ls' = IF ls.keys.buf # << >>
             THEN [ls EXCEPT !.keys.buf = Tail(@), !.recv = Append(@, Head(ls.keys.buf))]
             ELSE IF ls.keys.closed THEN [ls EXCEPT !.cons = "end"]
             ELSE [ls EXCEPT !.cons = "recv"]
    /\ UNCHANGED <<vfs, used, last, wr, present>>

\* The close wakes the caller that waits
CEnd ==
    /\ ls.cons = "recv" /\ ls.keys.closed /\ ls.keys.buf = << >>
    /\ ls' = [ls EXCEPT !.cons = "end"]
    /\ UNCHANGED <<vfs, used, last, wr, present>>

\* The caller stops receiving before the channel is closed
CAbandon ==
    /\ ls.cons \in { "busy", "recv" } /\ ~ls.keys.closed
    /\ ls' = [ls EXCEPT !.cons = "gone"]
    /\ UNCHANGED <<vfs, used, last, wr, present>>

\* append allocates a new array when the slice is full; the capacity of a small
\* slice doubles
Grow(cap) == IF cap = 0 THEN 1 ELSE 2 * cap

\* What a whole Write w of another caller, on the memory medium v with temporary
\* name tmp, does to the array behind mem.keynames: insert and extract work in
\* place, so a range in progress reads what they wrote, until an append
\* allocates a new array and leaves the old one to the range.
SliceAfterWrite(l, v, w, tmp) ==
    LET k1      == insert(v.keynames, tmp)
        moved1  == Len(v.keynames) >= l.cap
        cap1    == IF moved1 THEN Grow(l.cap) ELSE l.cap
        renamed == w.branch = "rename"
        moved2  == renamed /\ Len(k1) >= cap1
        cap2    == IF moved2 THEN Grow(cap1) ELSE cap1
    IN  [l EXCEPT !.cap = cap2,
                  !.shared = l.shared /\ ~moved1 /\ ~moved2,
                  !.view = IF ~l.shared \/ moved1 THEN l.view
                           ELSE IF moved2 \/ ~renamed THEN SubSeq(k1, 1, l.n)
                           ELSE SubSeq(w.vfs.keynames, 1, l.n)]

\* A whole Write(blob) of another caller, with no fault
OtherWrite ==
    /\ \E blob \in Blobs, seed \in Seeds \ used :
         LET w == Write(vfs, blob, seed, "none", 0)
         IN  /\ vfs' = w.vfs
             /\ used' = used \cup {seed}
             /\ ls' = IF vfs.kind = "mem"
                      THEN SliceAfterWrite(ls, vfs, w, TmpKeyname(vfs, seed, HashSize))
                      ELSE ls
    /\ UNCHANGED <<last, wr, present>>

\* A whole Remove(key) of another caller
OtherRemove ==
    /\ \E key \in DigestKeys :
         /\ vfs' = Remove(vfs, key, FALSE).vfs
         /\ ls' = [ls EXCEPT !.stable = @ \ {key}]
    /\ UNCHANGED <<used, last, wr, present>>

\* Write and Remove calls made before List() is called, which build the store
\* that is listed, and after the caller of List gave up
ApartWrite == (ls.pc = "none" \/ ls.cons = "gone") /\ OtherWrite

ApartRemove == (ls.pc = "none" \/ ls.cons = "gone") /\ OtherRemove

\* One List() call on a store that Write and Remove calls built
NextList == LBegin \/ LStep \/ CReceive \/ CEnd \/ CAbandon \/ ApartWrite \/ ApartRemove

SpecList == Init /\ [][NextList]_vars

\* One List() call while other callers write and remove
NextListConc == LBegin \/ LStep \/ CReceive \/ CEnd \/ CAbandon \/ OtherWrite \/ OtherRemove

SpecListConc == Init /\ [][NextListConc]_vars

\* Write and Remove calls made before List() is called
PriorWrite == ls.pc = "none" /\ OtherWrite

PriorRemove == ls.pc = "none" /\ OtherRemove

\* One List() call whose caller receives until the channel is closed
NextDrain == LBegin \/ LStep \/ CReceive \/ CEnd \/ PriorWrite \/ PriorRemove

\* The goroutine is scheduled, and the caller keeps coming back to the channel
SpecDrain ==
    Init /\ [][NextDrain]_vars /\ WF_vars(LStep) /\ WF_vars(CReceive \/ CEnd)

---------------------------------------------------------------------------
(* Properties of the store *)

\* C1: round trip.  In every state and for every blob B, if Write(B) returns a key K
\* and no error, then Read(K) returns a reader and no error, and the reader consumed
\* to the end delivers exactly B and ends with io.EOF.
C1_RoundTrip ==
    \A blob \in Blobs, fault \in Faults(vfs), size \in 1..MaxChunk :
        LET w == Write(vfs, blob, FreshSeed, fault, 0)
            r == ReadAll(w.vfs, w.key, size, 0)
        IN  (w.err = "nil" /\ w.key # NilKey)
                => (r.reader /\ r.err = "EOF" /\ r.data = blob)

\* C2: a stored blob is immutable.  As long as the blob of key K is stored (written
\* and not removed), every Read(K) consumed to the end delivers exactly the blob
\* and ends with io.EOF, however many Reads came before.
C2_StoredBlobImmutable ==
    \A key \in DigestKeys, size \in 1..MaxChunk :
        Present(vfs, key) =>
            LET r == ReadAll(vfs, key, size, 0)
            IN  r.reader /\ r.err = "EOF" /\ r.data = BlobOf(key)

\* C3: determinism and dedup.  In every state and for every blob B, two successive
\* Write(B) both return no error and the same key; the second takes the Exists
\* branch, leaves no temporary behind and leaves the canonical objects and their
\* contents as they were.
C3_SecondWriteDedups ==
    \A blob \in Blobs :
        LET w1 == Write(vfs, blob, FreshSeed, "none", 0)
            w2 == Write(w1.vfs, blob, FreshSeed2, "none", 0)
        IN  /\ w1.err = "nil" /\ w2.err = "nil"
            /\ w1.key # NilKey /\ w2.key = w1.key
            /\ w2.branch = "dedup"
            /\ Canonical(w2.vfs) = Canonical(w1.vfs)
            /\ DOMAIN Stored(w2.vfs) = DOMAIN Stored(w1.vfs)

\* C3 witness: a Write found its blob stored and took the Exists branch.
C3_Witness ==
    /\ last.op = "Write" /\ last.note = "dedup" /\ last.err = "nil"
    /\ CanonicalNames(vfs) # {}

\* C4: key and content agree.  In every state the content stored at a canonical
\* location has the digest the location stands for, and the key a successful
\* Write(B) returns is the digest of B.
C4_KeyMatchesContent ==
    /\ \A n \in CanonicalNames(vfs) : Digest(Stored(vfs)[n]) = KeyOfName(vfs, n)
    /\ \A blob \in Blobs, fault \in Faults(vfs) :
           LET w == Write(vfs, blob, FreshSeed, fault, 0)
           IN  (w.err = "nil" /\ w.key # NilKey) => w.key = Digest(blob)

\* C5: write atomicity.  While a Write(B) is in flight, a Read(K) of K = digest(B)
\* at that moment either finds nothing (not-found) or delivers the complete B and
\* ends with io.EOF: never a part of B.
C5_NoPartialBlobUnderKey ==
    \A w \in Writers :
        wr[w].pc \in {"copy", "delete", "rename"} =>
            LET r == ReadAll(vfs, Digest(wr[w].blob), MaxChunk, 0)
            IN  \/ (~r.reader /\ r.err = "NotFound")
                \/ (r.reader /\ r.err = "EOF" /\ r.data = wr[w].blob)

\* C6: Write surfaces its errors.  When Create fails or the copy fails, Write
\* returns a non-nil error; Write never returns a nil key with a nil error.
C6_WriteErrorSurfaces ==
    \A blob \in Blobs, fault \in Faults(vfs) :
      \A failAt \in IF fault = "copy" THEN 0..Len(blob) ELSE {0} :
        LET w == Write(vfs, blob, FreshSeed, fault, failAt)
        IN  /\ fault \in {"create", "copy"} => w.err # "nil"
            /\ ~(w.err = "nil" /\ w.key = NilKey)

\* C7: short keys are rejected.  In every state, Read of a key shorter than the
\* digest returns no reader and the short-key error, calls nothing on the
\* VirtualFS and leaves the store as it is.
C7_ShortKeyRejected ==
    \A key \in AllShortKeys, size \in 1..MaxChunk :
        LET rd == Read(vfs, key)
            r  == ReadAll(vfs, key, size, 0)
        IN  /\ ~rd.reader /\ rd.err = "ShortKey" /\ rd.calls = <<>>
            /\ ~r.reader /\ r.err = "ShortKey" /\ r.vfs = vfs

\* C7 witness: a Read was refused for its short key while the store holds a blob.
C7_Witness ==
    /\ last.op = "Read" /\ last.err = "ShortKey"
    /\ CanonicalNames(vfs) # {}

\* C8: not found.  In every state, Read of a digest-size key with no stored object
\* returns no reader and the error Open of the medium gave, which is the not-found
\* error and not the short-key error.
C8_NotFound ==
    \A key \in DigestKeys :
        ~Present(vfs, key) =>
            LET rd == Read(vfs, key)
            IN  /\ ~rd.reader
                /\ rd.err = Open(vfs, Keyname(vfs, key).name).err
                /\ rd.err = "NotFound"
                /\ ReadAll(vfs, key, MaxChunk, 0).err = "NotFound"

\* C8 witness: a Read failed with not-found on a store from which a blob was
\* written and removed, beside one that never was written.
C8_Witness ==
    /\ last.op = "Read" /\ last.err = "NotFound"
    /\ \E key \in DigestKeys : WasRemoved(vfs, key)
    /\ \E key \in DigestKeys : ~Present(vfs, key) /\ ~WasRemoved(vfs, key)

\* C9: removal is idempotent.  In every state and for every key K, of any length,
\* stored or not, Remove(K) twice returns no error either time, and after the first
\* Read(K) fails: no reader, and the not-found error (the short-key error for a K
\* below the digest size, which Read checks first).
C9_RemoveTwice ==
    \A key \in Keys :
        LET r1 == Remove(vfs, key, FALSE)
            r2 == Remove(r1.vfs, key, FALSE)
            rd == Read(r1.vfs, key)
        IN  /\ r1.err = "nil" /\ r2.err = "nil"
            /\ ~rd.reader
            /\ rd.err = IF Len(key) < HashSize THEN "ShortKey" ELSE "NotFound"

\* C10: corruption detection.  A checkedReader over a stream of content C with
\* expected key K, read to the end with any buffer size, delivers all of C and
\* ends with io.EOF exactly when K = digest(C), and with the corruption error
\* otherwise; also when the last bytes come together with io.EOF.
C10_CorruptionDetected ==
    last.op = "checkedReader" =>
        /\ last.data = last.blob
        /\ (last.err = "EOF") <=> (last.key = Digest(last.blob))
        /\ (last.key # Digest(last.blob)) => last.err = "Corrupted"

\* C10 witness: a reader whose last bytes came with io.EOF ended with io.EOF, its
\* key being the digest of what it read.
C10_Witness ==
    /\ last.op = "checkedReader" /\ last.note = "eager"
    /\ last.blob # <<>> /\ last.size >= Len(last.blob)
    /\ last.key = Digest(last.blob) /\ last.err = "EOF"

\* C11: enumeration completeness.  After successful Writes of distinct blobs to an
\* empty store and nothing else that changes it, and after one more such Write, a
\* drained List() yields exactly the keys of the blobs written, each once, with no
\* error; on the memory medium in ascending hex order.
C11_ListComplete ==
    OnlyDistinctWrites =>
        /\ ListsExactly(vfs)
        /\ vfs.kind = "mem" => \A ch \in List(vfs, NoFault) : Ascending(Hex(Yielded(ch)))
        /\ \A blob \in Blobs :
               ~Present(vfs, Digest(blob)) =>
                   LET w == Write(vfs, blob, FreshSeed, "none", 0)
                   IN  /\ w.err = "nil"
                       /\ PresentKeys(w.vfs) = PresentKeys(vfs) \cup { Digest(blob) }
                       /\ ListsExactly(w.vfs)
                       /\ vfs.kind = "mem" =>
                              \A ch \in List(w.vfs, NoFault) : Ascending(Hex(Yielded(ch)))

\* C11 witness: two distinct blobs were written to the empty memory store and
\* List yields two keys.
C11_Witness ==
    /\ OnlyDistinctWrites /\ Cardinality(used) = 2 /\ vfs.kind = "mem"
    /\ \A ch \in List(vfs, NoFault) : Len(ch.sent) = 2

\* C12: order of the filesystem enumeration.  On the filesystem medium, with no
\* temporary stored, List() yields the keys in ascending hex order, whatever order
\* Readdir returns the entries of a directory in.
C12_FileListAscending ==
    (vfs.kind = "file" /\ NoTemporary(vfs)) =>
        \A ch \in List(vfs, NoFault) : Ascending(Hex(Yielded(ch)))

\* C13: enumeration reflects removals.  After any sequence of Writes and Removes that
\* left no temporary, a drained List() yields exactly the keys of the blobs stored
\* now, each once: no removed key, and no key twice.
C13_ListReflectsRemovals == NoTemporary(vfs) => ListsExactly(vfs)

\* C14: temporaries never enumerate.  In every state, also while a Write is in
\* flight, List() yields no key made of the name of a stored temporary.
C14_NoTemporaryListed ==
    \A ch \in List(vfs, NoFault), n \in DOMAIN Stored(vfs) :
        IsTemporary(vfs, n) =>
            \A i \in 1..Len(ch.sent) : Yielded(ch)[i] # KeyOfName(vfs, n)

\* C15: sorted index of insert and extract.  Starting from an empty index, after
\* any sequence of insert and extract calls the index is sorted and holds each
\* name as often as it was inserted and not yet extracted, so that its length is
\* the number of present names; an insert grows it by one and an extract of a
\* present name returns true and shrinks it by one.
C15_IndexSortedAndSized ==
    vfs.kind = "mem" =>
        /\ StringsAreSorted(vfs.keynames)
        /\ \A name \in IndexNames : Occurrences(vfs.keynames, name) = present[name]
        /\ \A i \in 1..Len(vfs.keynames) : vfs.keynames[i] \in IndexNames
        /\ last.op = "insert" => Len(vfs.keynames) = last.size + 1
        /\ (last.op = "extract" /\ last.note = "present") =>
               /\ last.err = "nil" /\ last.data = << 1 >>
               /\ Len(vfs.keynames) = last.size - 1

\* C15 witness: a present name was extracted from an index that held three names,
\* two of them equal.
C15_Witness ==
    /\ last.op = "extract" /\ last.note = "present" /\ last.size = 3
    /\ Len(vfs.keynames) = 2
    /\ \E name \in IndexNames : present[name] = 2

\* C16: map and index of the memory medium.  In every state of the memory medium
\* the names in keynames are exactly the names of the blobs map, none twice, and
\* keynames is sorted.
C16_IndexIsKeySet ==
    vfs.kind = "mem" =>
        /\ { vfs.keynames[i] : i \in 1..Len(vfs.keynames) } = DOMAIN vfs.blobs
        /\ \A i, j \in 1..Len(vfs.keynames) : i # j => vfs.keynames[i] # vfs.keynames[j]
        /\ StringsAreSorted(vfs.keynames)

\* C17: an error ends the enumeration.  On the filesystem medium, whichever
\* os.Open or Readdir of the traversal fails, at any depth and for any order of
\* the directories, List sends exactly one error element, as the last element,
\* and the channel is closed once: no send on the closed channel and no second
\* close.  When nothing fails there is no error element and the channel is
\* closed once.
C17_ErrorEndsList ==
    vfs.kind = "file" =>
        \A r \in ListTo(vfs, NewChan, AnyFault) :
            LET ch == ListEnd(r)
            IN  /\ r.ok <=> r.ch.failed = 0
                /\ r.ok <=> ~r.ch.closed
                /\ ch.panic = "none" /\ ch.closed /\ ch.failed <= 1
                /\ \A i \in 1..(Len(ch.sent) - 1) : ch.sent[i].err = "nil"
                /\ IF ch.failed = 1
                   THEN /\ Len(ch.sent) > 0
                        /\ ch.sent[Len(ch.sent)] = [key |-> NilKey, err |-> "IOError"]
                   ELSE ~HasError(ch)

\* C17 witness: two blobs are stored, and a listing sends the key of one and then
\* the error of a directory on the way to the other.
C17_Witness ==
    /\ vfs.kind = "file" /\ Cardinality(CanonicalNames(vfs)) = 2 /\ NoTemporary(vfs)
    /\ \E ch \in List(vfs, AnyFault) :
         /\ Len(ch.sent) = 2 /\ ch.closed /\ ch.failed = 1
         /\ ch.sent[1].err = "nil" /\ ch.sent[2].err = "IOError"

\* C18: life cycle of a key.  For every blob B with key K: Write(B) on a stored K
\* returns K and no error and changes nothing a caller can observe; Remove(K) on an
\* absent K returns no error and changes nothing; and Write(B), Remove(K), Write(B)
\* from absent leaves what Read and List show exactly as the first Write left it.
C18_Lifecycle ==
    \A blob \in Blobs :
        LET key == Digest(blob)
            w1  == Write(vfs, blob, FreshSeed, "none", 0)
            r   == Remove(w1.vfs, key, FALSE)
            w2  == Write(r.vfs, blob, FreshSeed2, "none", 0)
            r0  == Remove(vfs, key, FALSE)
        IN  /\ w1.err = "nil" /\ w1.key = key /\ Present(w1.vfs, key)
            /\ Present(vfs, key) => Observable(w1.vfs) = Observable(vfs)
            /\ ~Present(vfs, key) =>
                   /\ r0.err = "nil" /\ Observable(r0.vfs) = Observable(vfs)
                   /\ r.err = "nil" /\ ~Present(r.vfs, key)
                   /\ w2.err = "nil" /\ w2.key = key
                   /\ Observable(w2.vfs) = Observable(w1.vfs)

\* C19: two Writes of the same content race.  When two Write(B) whose medium calls
\* interleave have both returned, both returned the key of B and no error, the
\* store holds B under that key and the temporary of neither, and List() yields
\* the key exactly once.
C19_IdenticalWritesRace ==
    \A w1, w2 \in Writers :
        (w1 # w2 /\ wr[w1].pc = "done" /\ wr[w2].pc = "done" /\ wr[w1].blob = wr[w2].blob) =>
            LET key == Digest(wr[w1].blob)
            IN  /\ wr[w1].err = "nil" /\ wr[w2].err = "nil"
                /\ wr[w1].key = key /\ wr[w2].key = key
                /\ Present(vfs, key)
                /\ Stored(vfs)[Keyname(vfs, key).name] = wr[w1].blob
                /\ TmpOf(w1) \notin DOMAIN Stored(vfs) /\ TmpOf(w2) \notin DOMAIN Stored(vfs)
                /\ \A ch \in List(vfs, NoFault) :
                       Cardinality({ i \in 1..Len(ch.sent) : ch.sent[i].key = key }) = 1

\* C20: two Removes of the same key race.  A Remove(K) whose Exists and Delete
\* interleave with those of another Remove(K) returns no error.
C20_RacingRemoves ==
    \A w \in Writers : wr[w].pc = "removed" => wr[w].err = "nil"

\* C21: no abrupt termination.  In every state and for every input, Read, Write
\* and Remove return their failure as a result value; in particular Remove(K)
\* returns nil or an error for a key K of any length, the empty key and the keys
\* shorter than 4 bytes included, and never ends in a run-time panic.
C21_NoPanic ==
    /\ \A key \in Keys \cup AllShortKeys, fails \in BOOLEAN :
           Remove(vfs, key, fails).err # "panic"
    /\ \A key \in Keys \cup AllShortKeys : Read(vfs, key).err # "panic"
    /\ \A blob \in Blobs, fault \in Faults(vfs) :
           Write(vfs, blob, FreshSeed, fault, 0).err # "panic"

\* C25: partial reads are never verified.  For the stream, the buffer size and
\* every expected key, at every offset of the stream: a Read of the checkedReader
\* returns the corruption error only when the wrapped reader returned io.EOF; a
\* Read on which the wrapped reader returned nil or an I/O error returns its bytes
\* and its error unchanged; a Read of n > 0 bytes feeds those n bytes to the
\* hasher; and a consumer that stops before the end of the stream got no error.
C25_PartialReadsUnverified ==
    last.op = "checkedReader" =>
        \A key \in ReaderKeys, off \in 0..Len(last.blob) :
            LET hashed == SubSeq(last.blob, 1, off)
                unread == SubSeq(last.blob, off + 1, Len(last.blob))
                src    == SourceRead(unread, last.size, last.note = "eager")
                reads  == { src } \cup
                          { [data |-> SubSeq(unread, 1, m), err |-> "IOError"] :
                                m \in 0..Min(last.size, Len(unread)) }
            IN  /\ \A u \in reads :
                       LET r == CheckedRead(key, hashed, u)
                       IN  /\ r.err = "Corrupted" => u.err = "EOF"
                           /\ u.err # "EOF" => (r.err = u.err /\ r.data = u.data)
                           /\ Len(r.data) = Len(u.data)
                           /\ r.hashed = hashed \o u.data
                /\ \A calls \in 1..(MaxLen + 1) :
                       LET c == Consume(key, <<>>, last.blob, <<>>, last.size,
                                        last.note = "eager", calls)
                       IN  c.unread # <<>> =>
                               (c.err = "nil" /\ c.data \o c.unread = last.blob)

\* C25 witness: a stream longer than the buffer was read with a key that is not
\* its digest: the first Read passed, the last one reported the corruption.
C25_Witness ==
    /\ last.op = "checkedReader" /\ Len(last.blob) > last.size
    /\ last.key # Digest(last.blob) /\ last.err = "Corrupted"
    /\ CheckedRead(last.key, <<>>, SourceRead(last.blob, last.size, FALSE)).err = "nil"

\* C26: a failed Write leaves the canonical objects alone.  In every state and for
\* every blob, a Write whose Create fails, or whose copy fails after any number of
\* bytes, leaves every canonical object and its content as it was, and so the
\* keys present; a failed Create leaves the whole store as it was, and a failed
\* copy leaves one more object, the temporary, which Write does not delete.
C26_FailedWriteKeepsCanonical ==
    \A blob \in Blobs, fault \in Faults(vfs) \cap { "create", "copy" } :
      \A failAt \in IF fault = "copy" THEN 0..Len(blob) ELSE {0} :
        LET w   == Write(vfs, blob, FreshSeed, fault, failAt)
            tmp == TmpKeyname(vfs, FreshSeed, HashSize)
        IN  /\ w.key = NilKey
            /\ Canonical(w.vfs) = Canonical(vfs)
            /\ PresentKeys(w.vfs) = PresentKeys(vfs)
            /\ \A n \in DOMAIN Stored(vfs) : n \in DOMAIN Stored(w.vfs)
                                             /\ Stored(w.vfs)[n] = Stored(vfs)[n]
            /\ fault = "create" => w.vfs = vfs
            /\ fault = "copy" =>
                   /\ DOMAIN Stored(w.vfs) = DOMAIN Stored(vfs) \cup { tmp }
                   /\ IsTemporary(w.vfs, tmp)
                   /\ Stored(w.vfs)[tmp] = SubSeq(blob, 1, failAt)

\* C26 witness: a Write failed in its copy after a blob was stored: the store
\* holds the blob and the temporary with a part of the other blob.
C26_Witness ==
    /\ CanonicalNames(vfs) # {}
    /\ \E n \in DOMAIN Stored(vfs) :
         /\ IsTemporary(vfs, n) /\ Stored(vfs)[n] # <<>>
         /\ \A blob \in Blobs : Present(vfs, Digest(blob)) => Stored(vfs)[n] # blob

\* C27: location of a key on the filesystem.  For every key of at least 4 bytes
\* with hex form h, Keyname is root/h[0:2]/h[2:4]/h[4:6]/h[6:8]/h.blob with h in
\* lower case hex; distinct keys have distinct locations; no canonical location is
\* the temporary location root/<hex>.new of any key; and every blob stored is at
\* the location of its key.
C27_FileKeyname ==
    vfs.kind = "file" =>
        /\ \A key \in PathKeys :
               LET h  == EncodeToString(key)
                   kn == FileKeyname(vfs, key)
               IN  /\ Len(h) = 2 * Len(key)
                   /\ \A i \in 1..Len(h) : IsHexDigit(h[i])
                   /\ kn.ok
                   /\ kn.name = << vfs.dir, << h[1], h[2] >>, << h[3], h[4] >>,
                                   << h[5], h[6] >>, << h[7], h[8] >>, h \o DotBlob >>
                   /\ ~IsTemporary(vfs, kn.name)
                   /\ \A other \in PathKeys \cup AllShortKeys :
                          kn.name # << vfs.dir, EncodeToString(other) \o DotNew >>
                   /\ \A sd \in 1..(MaxSeeds + 2) :
                          kn.name # FileTmpKeyname(vfs, sd, HashSize)
        /\ \A k1, k2 \in PathKeys :
               k1 # k2 => FileKeyname(vfs, k1).name # FileKeyname(vfs, k2).name
        /\ \A n \in CanonicalNames(vfs) :
               /\ KeyOfName(vfs, n) \in DigestKeys
               /\ FileKeyname(vfs, KeyOfName(vfs, n)).name = n

\* C27 witness: two blobs are stored in files, at two locations.
C27_Witness ==
    /\ vfs.kind = "file" /\ Cardinality(CanonicalNames(vfs)) = 2
    /\ \A n \in CanonicalNames(vfs) : Len(n) = 6 /\ n[1] = vfs.dir

\* C28: errors in the older FileBlobServer.listTo.  Whichever Readdir or os.Open
\* of a sub-directory fails, the listing sends exactly one error element, as the
\* last element, and closes the channel once; after the close nothing is sent and
\* the channel is not closed again, by listTo or by List.
C28_OldListErrorEndsList ==
    vfs.kind = "file" =>
        \A l \in FileBlobServerList(vfs, AnyFault) :
            l.err = "nil" =>
                /\ l.ch.panic = "none" /\ l.ch.closed /\ l.ch.failed <= 1
                /\ \A i \in 1..(Len(l.ch.sent) - 1) : l.ch.sent[i].err = "nil"
                /\ IF l.ch.failed = 1
                   THEN /\ Len(l.ch.sent) > 0
                        /\ l.ch.sent[Len(l.ch.sent)] = [key |-> NilKey, err |-> "IOError"]
                   ELSE ~HasError(l.ch)

\* C30: extract of an absent name does nothing.  For every index that insert and
\* extract build, the empty one included, and every name: extract of a name that
\* is not in the index, also one greater than all its elements, returns false and
\* leaves the index as it is, with no run-time fault; extract of a name in the
\* index returns true and takes out one occurrence of it.
C30_ExtractAbsentIsNoOp ==
    vfs.kind = "mem" =>
        \A name \in IndexNames :
            LET ex == extract(vfs.keynames, name)
            IN  /\ ~ex.panic
                /\ Occurrences(vfs.keynames, name) = 0 =>
                       (~ex.found /\ ex.keynames = vfs.keynames)
                /\ Occurrences(vfs.keynames, name) > 0 =>
                       /\ ex.found
                       /\ Len(ex.keynames) = Len(vfs.keynames) - 1
                       /\ \A other \in IndexNames :
                              Occurrences(ex.keynames, other) =
                                  Occurrences(vfs.keynames, other)
                                      - (IF other = name THEN 1 ELSE 0)

\* C22: a drained enumeration ends.  With the goroutine scheduled and the caller
\* receiving until the channel is closed, every List() call leads to the goroutine
\* finished, the channel closed and the caller out of its loop; the goroutine
\* never panics and closes the channel once; and when no
\* directory operation failed the close is the one of List and no error element
\* was sent.
C22_DrainedListEnds ==
    /\ (ls.pc # "none") ~> (ls.pc = "done" /\ ls.keys.closed /\ ls.cons = "end")
    /\ [](ls.pc # "panic" /\ ls.closes <= 1 /\ (ls.keys.closed <=> ls.closes = 1))
    /\ [](ls.pc = "done" => (ls.keys.closed /\ ls.closes = 1))
    /\ []((ls.pc = "done" /\ ls.failed = 0) =>
              /\ ls.closer = "List"
              /\ \A i \in 1..Len(ls.sent) : ls.sent[i].err = "nil")

\* C22 witness: the caller received two keys and then found the channel closed by
\* List.
C22_Witness ==
    /\ ls.pc = "done" /\ ls.cons = "end" /\ ls.closer = "List" /\ ls.failed = 0
    /\ Len(ls.recv) = 2 /\ ls.recv[1].key # ls.recv[2].key

\* C23: backpressure.  The channel has no buffer: at every moment the elements
\* whose send is completed are the elements the caller has received, in the same
\* order, and none waits in the channel; so the goroutine is never ahead of the
\* caller by a completed send.
C23_Backpressure ==
    /\ ls.keys.cap = 0 /\ ls.keys.buf = << >>
    /\ ls.sent = ls.recv
    /\ ls.cons = "none" => ls.sent = << >>

\* C23 witness: the caller has received one key and is not back at the channel,
\* and the goroutine waits at the send of the next key.
C23_Witness ==
    /\ ls.pc = "send" /\ ls.cons = "busy" /\ Len(ls.recv) = 1
    /\ ls.elem.err = "nil" /\ ls.elem.key # ls.recv[1].key

\* C24: an abandoned enumeration stalls the goroutine.  Once the caller gave up
\* and the goroutine stands at the send of an element, key or error, it stands
\* there in every later state: nothing more is sent, the channel is not closed and
\* the goroutine does not end; and in these states a Read returns what is
\* stored, and Write and Remove calls of other callers can take their steps.
C24_AbandonedListStalls ==
    /\ [][ (ls.cons = "gone" /\ ls.pc = "send") =>
               (ls'.cons = "gone" /\ ls'.pc = "send" /\ ls'.sent = ls.sent
                /\ ls'.elem = ls.elem /\ ~ls'.keys.closed) ]_vars
    /\ []((ls.cons = "gone" /\ ls.pc = "send") =>
              /\ ~ls.keys.closed /\ ls.closes = 0
              /\ \A key \in DigestKeys :
                     Read(vfs, key).err = IF Present(vfs, key) THEN "nil" ELSE "NotFound"
              /\ ENABLED RStep
              /\ (used # Seeds => ENABLED WStep))

\* C24 witness: the caller gave up after the first key, the goroutine waits at
\* the send of the second, and meanwhile another caller has removed the first.
C24_Witness ==
    /\ ls.cons = "gone" /\ ls.pc = "send" /\ ~ls.keys.closed
    /\ Len(ls.recv) = 1 /\ ls.elem.err = "nil" /\ ls.elem.key # ls.recv[1].key
    /\ ~Present(vfs, ls.recv[1].key) /\ Present(vfs, ls.elem.key)

\* C29: stable keys survive a concurrent traversal.  When a List() was drained to
\* the close with no error, every key that was stored when List was called and not
\* removed since was received exactly once, whatever other callers wrote and
\* removed meanwhile.
C29_StableKeysListedOnce ==
    (ls.pc = "done" /\ ls.cons = "end" /\ ls.failed = 0) =>
        \A key \in ls.stable :
            Cardinality({ i \in 1..Len(ls.recv) : ls.recv[i].key = key }) = 1

===========================================================================
